---- MODULE Spec2Model ----
(***************************************************************************)
(* Tool dispatcher of the mcp-spotify server (src/src/index.ts): the        *)
(* tools/list catalog, validateArgs, the tools/call switch and its catch.   *)
(* AuthManager, SpotifyApi and the resource handlers are imported by        *)
(* index.ts from ./utils and ./handlers; their behaviour is taken from the  *)
(* design document (token manager 4.1, API client 4.2, handlers 4.3).       *)
(***************************************************************************)
EXTENDS Integers, Sequences, FiniteSets, TLC

VARIABLES calls, now, token, exchanges, listed

vars == <<calls, now, token, exchanges, listed>>

(* ---------------------------- bounds ---------------------------------- *)
MaxCalls == 2
MaxTime == 1
MaxExchanges == 2
MaxExpiresIn == 2

Slots == 1..MaxCalls

(* ------------------------ JSON values and text ------------------------ *)
JNull == [t |-> "null"]
JBool(b) == [t |-> "bool", b |-> b]
JNum(n) == [t |-> "num", n |-> n]
JStr(s) == [t |-> "str", s |-> s]
JArr(a) == [t |-> "arr", a |-> a]
JObj(o) == [t |-> "obj", o |-> o]
Member(k, v) == [k |-> k, v |-> v]

Digits == <<"0", "1", "2", "3", "4", "5", "6", "7", "8", "9">>

RECURSIVE NumChars(_)
NumChars(n) == IF n < 10 THEN <<Digits[n + 1]>> ELSE NumChars(n \div 10) \o <<Digits[(n % 10) + 1]>>

RECURSIVE Spaces(_)
Spaces(n) == IF n = 0 THEN <<>> ELSE <<" ">> \o Spaces(n - 1)

RECURSIVE Escape(_)
Escape(s) ==
  IF s = <<>> THEN <<>>
  ELSE (IF Head(s) \in {"\"", "\\"} THEN <<"\\", Head(s)>> ELSE <<Head(s)>>) \o Escape(Tail(s))

Quote(s) == <<"\"">> \o Escape(s) \o <<"\"">>

RECURSIVE Stringify(_, _), StringifyItems(_, _), StringifyMembers(_, _)
Stringify(v, ind) ==
  CASE v.t = "null" -> <<"n", "u", "l", "l">>
    [] v.t = "bool" -> IF v.b THEN <<"t", "r", "u", "e">> ELSE <<"f", "a", "l", "s", "e">>
    [] v.t = "num" -> NumChars(v.n)
    [] v.t = "str" -> Quote(v.s)
    [] v.t = "arr" ->
         IF v.a = <<>> THEN <<"[", "]">>
         ELSE <<"[", "\n">> \o StringifyItems(v.a, ind + 2) \o <<"\n">> \o Spaces(ind) \o <<"]">>
    [] v.t = "obj" ->
         IF v.o = <<>> THEN <<"{", "}">>
         ELSE <<"{", "\n">> \o StringifyMembers(v.o, ind + 2) \o <<"\n">> \o Spaces(ind) \o <<"}">>
StringifyItems(a, ind) ==
  Spaces(ind) \o Stringify(Head(a), ind)
    \o (IF Tail(a) = <<>> THEN <<>> ELSE <<",", "\n">> \o StringifyItems(Tail(a), ind))
StringifyMembers(o, ind) ==
  Spaces(ind) \o Quote(Head(o).k) \o <<":", " ">> \o Stringify(Head(o).v, ind)
    \o (IF Tail(o) = <<>> THEN <<>> ELSE <<",", "\n">> \o StringifyMembers(Tail(o), ind))

ParseFail == [ok |-> FALSE, val |-> JNull, rest |-> <<>>]
ParseOk(v, r) == [ok |-> TRUE, val |-> v, rest |-> r]

RECURSIVE SkipWs(_)
SkipWs(s) == IF s # <<>> /\ Head(s) \in {" ", "\n"} THEN SkipWs(Tail(s)) ELSE s

IsPrefix(p, s) == Len(p) <= Len(s) /\ SubSeq(s, 1, Len(p)) = p
Drop(s, n) == SubSeq(s, n + 1, Len(s))
DigitVal(c) == CHOOSE d \in 0..9 : Digits[d + 1] = c
IsDigit(c) == \E d \in 1..10 : Digits[d] = c

RECURSIVE ParseDigits(_, _)
ParseDigits(s, acc) ==
  IF s # <<>> /\ IsDigit(Head(s)) THEN ParseDigits(Tail(s), acc * 10 + DigitVal(Head(s)))
  ELSE ParseOk(JNum(acc), s)

RECURSIVE ParseChars(_, _)
ParseChars(s, acc) ==
  IF s = <<>> THEN ParseFail
  ELSE IF Head(s) = "\"" THEN ParseOk(JStr(acc), Tail(s))
  ELSE IF Head(s) = "\\" THEN
    (IF Tail(s) # <<>> /\ Head(Tail(s)) \in {"\"", "\\"}
     THEN ParseChars(Tail(Tail(s)), Append(acc, Head(Tail(s)))) ELSE ParseFail)
  ELSE IF Head(s) = "\n" THEN ParseFail
  ELSE ParseChars(Tail(s), Append(acc, Head(s)))

RECURSIVE ParseValue(_), ParseItems(_, _), ParseMembers(_, _)
ParseValue(s0) ==
  LET s == SkipWs(s0) IN
  IF s = <<>> THEN ParseFail
  ELSE IF IsPrefix(<<"n", "u", "l", "l">>, s) THEN ParseOk(JNull, Drop(s, 4))
  ELSE IF IsPrefix(<<"t", "r", "u", "e">>, s) THEN ParseOk(JBool(TRUE), Drop(s, 4))
  ELSE IF IsPrefix(<<"f", "a", "l", "s", "e">>, s) THEN ParseOk(JBool(FALSE), Drop(s, 5))
  ELSE IF IsDigit(Head(s)) THEN
    (IF Head(s) = "0" /\ Len(s) > 1 /\ IsDigit(s[2]) THEN ParseFail ELSE ParseDigits(s, 0))
  ELSE IF Head(s) = "\"" THEN ParseChars(Tail(s), <<>>)
  ELSE IF Head(s) = "[" THEN
    (LET r == SkipWs(Tail(s)) IN
     IF r # <<>> /\ Head(r) = "]" THEN ParseOk(JArr(<<>>), Tail(r)) ELSE ParseItems(r, <<>>))
  ELSE IF Head(s) = "{" THEN
    (LET r == SkipWs(Tail(s)) IN
     IF r # <<>> /\ Head(r) = "}" THEN ParseOk(JObj(<<>>), Tail(r)) ELSE ParseMembers(r, <<>>))
  ELSE ParseFail
ParseItems(s, acc) ==
  LET e == ParseValue(s) IN
  IF ~e.ok THEN ParseFail
  ELSE LET r == SkipWs(e.rest) IN
       IF r = <<>> THEN ParseFail
       ELSE IF Head(r) = "]" THEN ParseOk(JArr(Append(acc, e.val)), Tail(r))
       ELSE IF Head(r) = "," THEN ParseItems(Tail(r), Append(acc, e.val))
       ELSE ParseFail
ParseMembers(s0, acc) ==
  LET s == SkipWs(s0) IN
  IF s = <<>> \/ Head(s) # "\"" THEN ParseFail
  ELSE LET k == ParseChars(Tail(s), <<>>) IN
       IF ~k.ok THEN ParseFail
       ELSE LET c == SkipWs(k.rest) IN
            IF c = <<>> \/ Head(c) # ":" THEN ParseFail
            ELSE LET e == ParseValue(Tail(c)) IN
                 IF ~e.ok THEN ParseFail
                 ELSE LET r == SkipWs(e.rest) IN
                      IF r = <<>> THEN ParseFail
                      ELSE IF Head(r) = "}" THEN ParseOk(JObj(Append(acc, Member(k.val.s, e.val))), Tail(r))
                      ELSE IF Head(r) = "," THEN ParseMembers(Tail(r), Append(acc, Member(k.val.s, e.val)))
                      ELSE ParseFail

JSONParse(text) ==
  LET p == ParseValue(text) IN
  IF p.ok /\ SkipWs(p.rest) = <<>> THEN [ok |-> TRUE, val |-> p.val] ELSE [ok |-> FALSE, val |-> JNull]

(* --------------------------- tool arguments --------------------------- *)
\* A JSON argument value: a string, a number, or an array of n string ids.
StrVal(s) == [type |-> "string", str |-> s, n |-> 0]
NumVal(n) == [type |-> "number", str |-> "", n |-> n]
ArrVal(n) == [type |-> "array", str |-> "", n |-> n]

Keys == {"query", "type", "id", "ids", "limit"}

ValuesOf(k) ==
  CASE k = "query" -> {StrVal("q")}
    [] k = "type" -> {StrVal("track"), StrVal("bogus")}
    [] k = "id" -> {StrVal("x")}
    [] k = "ids" -> {ArrVal(50), ArrVal(51)}
    [] k = "limit" -> {StrVal("banana"), NumVal(0)}

\* request.params.arguments: undefined, or an object with some of the keys.
Absent == [present |-> FALSE, fields |-> [k \in {} |-> StrVal("")]]
EmptyArgs == [present |-> TRUE, fields |-> [k \in {} |-> StrVal("")]]
ArgObjects ==
  {Absent} \cup
  UNION {{[present |-> TRUE, fields |-> f] :
            f \in {g \in [S -> UNION {ValuesOf(k) : k \in Keys}] :
                     \A k \in S : g[k] \in ValuesOf(k)}} : S \in SUBSET Keys}

(* ------------------------------ errors -------------------------------- *)
InvalidParams == "InvalidParams"
MethodNotFound == "MethodNotFound"
InternalError == "InternalError"

NoError == [isMcp |-> FALSE, code |-> "", name |-> "", message |-> <<>>]
McpError(code, message) ==
  [isMcp |-> TRUE, code |-> code, name |-> "McpError", message |-> message]
AuthenticationError(desc) ==
  [isMcp |-> FALSE, code |-> "", name |-> "AuthenticationError", message |-> <<desc>>]
ApiError(status) ==
  [isMcp |-> FALSE, code |-> "", name |-> "ApiError", message |-> <<status>>]

\* `${error}` of an Error object: its name, a colon, its message.
ErrToString(e) == <<e.name, ": ">> \o e.message

Statuses == {"401", "403"}
ExchangeFailures == {"invalid_client"}

(* ---------------------------- tool catalog ---------------------------- *)
Tool(name, required, maxItems) ==
  [name |-> name, required |-> required, maxItems |-> maxItems]

\* The tools/list answer: name, inputSchema.required and the maxItems of ids
\* (0 where the schema declares none).  get_new_releases declares no
\* required list at all.
Tools ==
  << Tool("get_access_token", <<>>, 0),
     Tool("search", <<"query", "type">>, 0),
     Tool("get_artist", <<"id">>, 0),
     Tool("get_multiple_artists", <<"ids">>, 50),
     Tool("get_artist_top_tracks", <<"id">>, 0),
     Tool("get_artist_related_artists", <<"id">>, 0),
     Tool("get_artist_albums", <<"id">>, 0),
     Tool("get_album", <<"id">>, 0),
     Tool("get_album_tracks", <<"id">>, 0),
     Tool("get_multiple_albums", <<"ids">>, 20),
     Tool("get_track", <<"id">>, 0),
     Tool("get_available_genres", <<>>, 0),
     Tool("get_new_releases", <<>>, 0),
     Tool("get_recommendations", <<>>, 0),
     Tool("get_audiobook", <<"id">>, 0) >>

Range(s) == {s[i] : i \in DOMAIN s}
CatalogNames == {Tools[i].name : i \in DOMAIN Tools}
CatalogEntry(name) == Tools[CHOOSE i \in DOMAIN Tools : Tools[i].name = name]

UnknownNames == {"frobnicate"}
Names == CatalogNames \cup UnknownNames

(* ---------------------------- validateArgs ---------------------------- *)
Threw(e) == [ok |-> FALSE, value |-> Absent, error |-> e]
Returned(v) == [ok |-> TRUE, value |-> v, error |-> NoError]

RECURSIVE CheckFields(_, _)
CheckFields(args, requiredFields) ==
  IF requiredFields = <<>> THEN Returned(args)
  ELSE IF Head(requiredFields) \notin DOMAIN args.fields
       THEN Threw(McpError(InvalidParams, <<"Missing required field: ", Head(requiredFields)>>))
       ELSE CheckFields(args, Tail(requiredFields))

ValidateArgsNoKeys(args, requiredFields) ==
  IF ~args.present THEN Threw(McpError(InvalidParams, <<"Arguments are required">>))
  ELSE Returned(args)

ValidateArgs(args, requiredFields) ==
  IF ~args.present THEN Threw(McpError(InvalidParams, <<"Arguments are required">>))
  ELSE CheckFields(args, requiredFields)

\* request.params.arguments || {}
ArgsOrEmptyMissing(args) == args

ArgsOrEmpty(args) == IF args.present THEN args ELSE EmptyArgs

(* ------------------------ the tools/call switch ----------------------- *)
TokenCase == [kind |-> "token", validate |-> FALSE, orEmpty |-> FALSE,
              required |-> <<>>, handler |-> "authManager.getAccessToken"]
HandlerCase(required, handler) ==
  [kind |-> "handler", validate |-> TRUE, orEmpty |-> FALSE,
   required |-> required, handler |-> handler]
OptionalCase(handler) ==
  [kind |-> "handler", validate |-> TRUE, orEmpty |-> TRUE,
   required |-> <<>>, handler |-> handler]
NoArgsCase(handler) ==
  [kind |-> "handler", validate |-> FALSE, orEmpty |-> FALSE,
   required |-> <<>>, handler |-> handler]
DefaultCase == [kind |-> "default", validate |-> FALSE, orEmpty |-> FALSE,
                required |-> <<>>, handler |-> ""]

SwitchCases(name) ==
  CASE name = "get_access_token" -> TokenCase
    [] name = "search" -> HandlerCase(<<"query", "type">>, "tracksHandler.search")
    [] name = "get_artist" -> HandlerCase(<<"id">>, "artistsHandler.getArtist")
    [] name = "get_multiple_artists" -> HandlerCase(<<"ids">>, "artistsHandler.getMultipleArtists")
    [] name = "get_artist_top_tracks" -> HandlerCase(<<"id">>, "artistsHandler.getArtistTopTracks")
    [] name = "get_artist_related_artists" -> HandlerCase(<<"id">>, "artistsHandler.getArtistRelatedArtists")
    [] name = "get_artist_albums" -> HandlerCase(<<"id">>, "artistsHandler.getArtistAlbums")
    [] name = "get_album" -> HandlerCase(<<"id">>, "albumsHandler.getAlbum")
    [] name = "get_album_tracks" -> HandlerCase(<<"id">>, "albumsHandler.getAlbumTracks")
    [] name = "get_multiple_albums" -> HandlerCase(<<"ids">>, "albumsHandler.getMultipleAlbums")
    [] name = "get_track" -> HandlerCase(<<"id">>, "tracksHandler.getTrack")
    [] name = "get_available_genres" -> NoArgsCase("tracksHandler.getAvailableGenres")
    [] name = "get_new_releases" -> OptionalCase("albumsHandler.getNewReleases")
    [] name = "get_recommendations" -> OptionalCase("tracksHandler.getRecommendations")
    [] name = "get_audiobook" -> HandlerCase(<<"id">>, "audiobooksHandler.getAudiobook")
    [] OTHER -> DefaultCase

CaseNoAudiobook(name) ==
  IF name = "get_audiobook" THEN DefaultCase ELSE SwitchCases(name)

Case(name) == SwitchCases(name)

\* The catch around the switch: a McpError is rethrown, anything else is
\* wrapped as InternalError with `Unexpected error: ${error}`.
CatchWrapAll(error) ==
  McpError(InternalError, <<"Unexpected error: ">> \o ErrToString(error))

CatchRethrow(error) == error

CatchNoDescription(error) ==
  IF error.isMcp THEN error ELSE McpError(InternalError, <<"Unexpected error">>)

Catch(error) ==
  IF error.isMcp THEN error
  ELSE McpError(InternalError, <<"Unexpected error: ">> \o ErrToString(error))

\* content of a successful get_access_token call: the token itself.
TokenContentQuoted(tokenText) ==
  <<[type |-> "text", text |-> Stringify(JStr(tokenText), 0)]>>

TokenContent(tokenText) == <<[type |-> "text", text |-> tokenText]>>

\* content of every other successful call: JSON.stringify(result, null, 2).
ResultContentTwice(result) ==
  <<[type |-> "text", text |-> Stringify(JStr(Stringify(result, 0)), 0)]>>

ResultContent(result) == <<[type |-> "text", text |-> Stringify(result, 0)]>>

(* ---------------------------- token manager --------------------------- *)
SafetyMargin == 1
MinExpiresIn == SafetyMargin + 1

NoToken == [value |-> 0, expiresAt |-> 0]
TokenText(value) == <<"B", "Q">> \o NumChars(value)

TokenValidNoMargin(tok, t) == tok.value # 0 /\ t < tok.expiresAt

TokenValid(tok, t) == tok.value # 0 /\ t < tok.expiresAt - SafetyMargin

(* --------------------------- upstream bodies --------------------------- *)
Bodies ==
  { JObj(<<Member(<<"i", "d">>, JStr(<<"a", "\"", "\\">>)),
           Member(<<"n">>, JNum(120)),
           Member(<<"x">>, JArr(<<JNull, JObj(<<>>), JArr(<<>>), JArr(<<JBool(TRUE)>>)>>))>>) }

(* ------------------------------- state -------------------------------- *)
NoOutcome == [kind |-> "none", content |-> <<>>, error |-> NoError]
Success(content) == [kind |-> "ok", content |-> content, error |-> NoError]
Failure(error) == [kind |-> "error", content |-> <<>>, error |-> error]

\* One tools/call request.  name and args are the request; the other fields
\* record what the dispatcher did for it: the handler it invoked and with
\* which arguments, its token exchanges and API requests, the token it was
\* handed and when, the upstream result, the error thrown inside the try
\* block, and the response.
IdleCall ==
  [pc |-> "idle", name |-> "", args |-> Absent,
   handler |-> "", handlerArgs |-> Absent, invoked |-> 0,
   exch |-> 0, reqs |-> 0, tok |-> NoToken, handedAt |-> 0,
   hasResult |-> FALSE, result |-> JNull, thrown |-> NoError,
   outcome |-> NoOutcome]

Init ==
  /\ calls = [c \in Slots |-> IdleCall]
  /\ now = 0
  /\ token = NoToken
  /\ exchanges = 0
  /\ listed = <<>>

Throw(call, error) ==
  [call EXCEPT !.pc = "done", !.thrown = error, !.outcome = Failure(Catch(error))]

\* The API client has a valid token and issues the HTTP request with it.
SendRequest(call, tok) ==
  [call EXCEPT !.pc = "api", !.tok = tok, !.handedAt = now, !.reqs = @ + 1]

(* ------------------------------ actions ------------------------------- *)
\* tools/list
ListTools ==
  /\ listed' = Tools
  /\ UNCHANGED <<calls, now, token, exchanges>>

\* tools/call, run up to its first network suspension (or to its end).
CallTool(c, name, args) ==
  /\ calls[c].pc = "idle"
  /\ LET d == Case(name)
         req == [IdleCall EXCEPT !.name = name, !.args = args]
         a == IF d.orEmpty THEN ArgsOrEmpty(args) ELSE args
         v == IF d.validate THEN ValidateArgs(a, d.required) ELSE Returned(Absent)
         inv == [req EXCEPT !.handler = d.handler, !.handlerArgs = v.value, !.invoked = 1]
     IN
     IF d.kind = "default"
     THEN /\ calls' = [calls EXCEPT ![c] =
                 Throw(req, McpError(MethodNotFound, <<"Unknown tool: ", name>>))]
          /\ UNCHANGED exchanges
     ELSE IF ~v.ok
     THEN /\ calls' = [calls EXCEPT ![c] = Throw(req, v.error)]
          /\ UNCHANGED exchanges
     ELSE IF TokenValid(token, now)
     THEN /\ calls' = [calls EXCEPT ![c] =
                 IF d.kind = "token"
                 THEN [inv EXCEPT !.pc = "done", !.tok = token, !.handedAt = now,
                                  !.hasResult = TRUE, !.result = JStr(TokenText(token.value)),
                                  !.outcome = Success(TokenContent(TokenText(token.value)))]
                 ELSE SendRequest(inv, token)]
          /\ UNCHANGED exchanges
     ELSE /\ exchanges < MaxExchanges
          /\ exchanges' = exchanges + 1
          /\ calls' = [calls EXCEPT ![c] = [inv EXCEPT !.pc = "exchange", !.exch = @ + 1]]
  /\ UNCHANGED <<now, token, listed>>

\* The token endpoint answers 2xx: the token is stored with its expiry and
\* handed to the caller.
ExchangeOk(c, expiresIn) ==
  /\ calls[c].pc = "exchange"
  /\ LET tok == [value |-> exchanges, expiresAt |-> now + expiresIn]
         call == calls[c]
     IN
     /\ token' = tok
     /\ calls' = [calls EXCEPT ![c] =
            IF Case(call.name).kind = "token"
            THEN [call EXCEPT !.pc = "done", !.tok = tok, !.handedAt = now,
                              !.hasResult = TRUE, !.result = JStr(TokenText(tok.value)),
                              !.outcome = Success(TokenContent(TokenText(tok.value)))]
            ELSE SendRequest(call, tok)]
  /\ UNCHANGED <<now, exchanges, listed>>

\* The token exchange fails: AuthenticationError, no retry.
ExchangeFail(c, desc) ==
  /\ calls[c].pc = "exchange"
  /\ calls' = [calls EXCEPT ![c] = Throw(calls[c], AuthenticationError(desc))]
  /\ UNCHANGED <<now, token, exchanges, listed>>

\* The resource endpoint answers 2xx with a JSON body.
ApiOk(c, body) ==
  /\ calls[c].pc = "api"
  /\ calls' = [calls EXCEPT ![c] =
         [calls[c] EXCEPT !.pc = "done", !.hasResult = TRUE, !.result = body,
                          !.outcome = Success(ResultContent(body))]]
  /\ UNCHANGED <<now, token, exchanges, listed>>

\* The resource endpoint answers non-2xx: ApiError with the status.
ApiFail(c, status) ==
  /\ calls[c].pc = "api"
  /\ calls' = [calls EXCEPT ![c] = Throw(calls[c], ApiError(status))]
  /\ UNCHANGED <<now, token, exchanges, listed>>

\* The response has been delivered; the request is forgotten.
Return(c) ==
  /\ calls[c].pc = "done"
  /\ calls' = [calls EXCEPT ![c] = IdleCall]
  /\ UNCHANGED <<now, token, exchanges, listed>>

Tick ==
  /\ now < MaxTime
  /\ now' = now + 1
  /\ UNCHANGED <<calls, token, exchanges, listed>>

ExpiresIns == MinExpiresIn..MaxExpiresIn
FirstIdle(c) == calls[c].pc = "idle" /\ \A d \in Slots : d < c => calls[d].pc # "idle"

\* Every tool and every argument object, one request in flight at a time.
Next ==
  \/ ListTools
  \/ Tick
  \/ \E c \in Slots :
        /\ FirstIdle(c)
        /\ \A d \in Slots : calls[d].pc = "idle"
        /\ \E name \in Names, args \in ArgObjects : CallTool(c, name, args)
  \/ \E c \in Slots, e \in ExpiresIns : ExchangeOk(c, e)
  \/ \E c \in Slots, desc \in ExchangeFailures : ExchangeFail(c, desc)
  \/ \E c \in Slots, body \in Bodies : ApiOk(c, body)
  \/ \E c \in Slots, status \in Statuses : ApiFail(c, status)
  \/ \E c \in Slots : Return(c)

Spec == Init /\ [][Next]_vars

\* Token-using tools/call requests interleaved at their network suspensions.
RaceNames == {"get_access_token", "get_artist"}
RaceArgs == {a \in ArgObjects : a.present /\ DOMAIN a.fields = {"id"}}

NextRace ==
  \/ Tick
  \/ \E c \in Slots :
        /\ FirstIdle(c)
        /\ \E name \in RaceNames, args \in RaceArgs : CallTool(c, name, args)
  \/ \E c \in Slots, e \in ExpiresIns : ExchangeOk(c, e)
  \/ \E c \in Slots, desc \in ExchangeFailures : ExchangeFail(c, desc)
  \/ \E c \in Slots, body \in Bodies : ApiOk(c, body)
  \/ \E c \in Slots, status \in Statuses : ApiFail(c, status)
  \/ \E c \in Slots : Return(c)

SpecRace == Init /\ [][NextRace]_vars

(* ------------------------------ claims -------------------------------- *)
IsInfix(p, s) ==
  \E i \in 0..(Len(s) - Len(p)) : SubSeq(s, i + 1, i + Len(p)) = p

RequiredTools ==
  {"search", "get_artist", "get_multiple_artists", "get_artist_top_tracks",
   "get_artist_related_artists", "get_artist_albums", "get_album",
   "get_album_tracks", "get_multiple_albums", "get_track", "get_audiobook"}

MissingRequired(name, args) ==
  \/ ~args.present
  \/ \E k \in Range(CatalogEntry(name).required) : k \notin DOMAIN args.fields

ErrorCode(call) == call.outcome.error.code

\* C1: a call of a tool with required fields whose arguments are absent or
\* lack a required key ends in invalid-params, and no handler, token exchange
\* or API request was made for it.
C1_ValidationPrecedesDispatch ==
  \A c \in Slots :
    LET call == calls[c] IN
    (call.pc # "idle" /\ call.name \in RequiredTools /\ MissingRequired(call.name, call.args))
      => /\ call.pc = "done"
         /\ call.outcome.kind = "error"
         /\ ErrorCode(call) = InvalidParams
         /\ call.invoked = 0 /\ call.handler = ""
         /\ call.exch = 0 /\ call.reqs = 0

C1_Witness ==
  \E c \in Slots :
    /\ calls[c].name = "search"
    /\ calls[c].args.present
    /\ "query" \in DOMAIN calls[c].args.fields
    /\ "type" \notin DOMAIN calls[c].args.fields
    /\ calls[c].pc = "done"
    /\ ErrorCode(calls[c]) = InvalidParams

\* C2: a call whose name is outside the catalog ends in method-not-found
\* (not internal-error), with no handler or token call made.
C2_UnknownToolMethodNotFound ==
  \A c \in Slots :
    LET call == calls[c] IN
    (call.pc # "idle" /\ call.name \notin CatalogNames)
      => /\ call.pc = "done"
         /\ call.outcome.kind = "error"
         /\ ErrorCode(call) = MethodNotFound
         /\ call.invoked = 0 /\ call.exch = 0 /\ call.reqs = 0

C2_Witness ==
  \E c \in Slots :
    /\ calls[c].name = "frobnicate"
    /\ calls[c].pc = "done"
    /\ ErrorCode(calls[c]) = MethodNotFound

OneTextBlock(call) ==
  /\ Len(call.outcome.content) = 1
  /\ call.outcome.content[1].type = "text"

\* C5 as stated: every successful call, of every tool, returns one text
\* block that JSON-parses to the handler's result.
C5_RoundTripAllTools ==
  \A c \in Slots :
    LET call == calls[c] IN
    (call.pc = "done" /\ call.outcome.kind = "ok")
      => /\ OneTextBlock(call)
         /\ JSONParse(call.outcome.content[1].text) = [ok |-> TRUE, val |-> call.result]

\* C5 amended: every successful call returns one text block; for every tool
\* but get_access_token it JSON-parses to the upstream result, and for
\* get_access_token it is the token string itself, not serialized.
C5_RoundTripExceptToken ==
  \A c \in Slots :
    LET call == calls[c] IN
    (call.pc = "done" /\ call.outcome.kind = "ok")
      => /\ OneTextBlock(call)
         /\ IF call.name = "get_access_token"
            THEN call.outcome.content[1].text = call.result.s
            ELSE JSONParse(call.outcome.content[1].text) = [ok |-> TRUE, val |-> call.result]

C5_Witness ==
  \E c \in Slots :
    /\ calls[c].pc = "done"
    /\ calls[c].outcome.kind = "ok"
    /\ calls[c].name = "get_album"
    /\ calls[c].result.t = "obj"

Kinds == {InvalidParams, MethodNotFound, InternalError}

\* C6: every failing call ends in a protocol error of one of the three
\* kinds; a thrown protocol error is passed through unchanged, any other
\* failure is wrapped as internal-error carrying its description.
C6_ErrorKinds ==
  \A c \in Slots :
    LET call == calls[c] IN
    /\ call.thrown # NoError => (call.pc = "done" /\ call.outcome.kind = "error")
    /\ call.outcome.kind = "error"
         => /\ call.thrown # NoError
            /\ call.outcome.error.isMcp
            /\ ErrorCode(call) \in Kinds
            /\ IF call.thrown.isMcp
               THEN call.outcome.error = call.thrown
               ELSE /\ ErrorCode(call) = InternalError
                    /\ IsInfix(ErrToString(call.thrown), call.outcome.error.message)

C6_Witness ==
  \E c \in Slots :
    /\ calls[c].pc = "done"
    /\ calls[c].thrown.name = "AuthenticationError"
    /\ ErrorCode(calls[c]) = InternalError

\* C7: get_multiple_artists never reaches its handler with more ids than the
\* maxItems its schema declares.
C7_MaxItemsRespected ==
  \A c \in Slots :
    (calls[c].name = "get_multiple_artists" /\ calls[c].invoked >= 1)
      => calls[c].handlerArgs.fields["ids"].n <= CatalogEntry("get_multiple_artists").maxItems

\* C8: a call invokes at most one handler or token operation, once, with at
\* most one exchange and one API request; when that operation fails the call
\* ends in an error whose message carries the failure's description and has
\* no result.
C8_NoRetryNoSwallow ==
  \A c \in Slots :
    LET call == calls[c] IN
    /\ call.invoked <= 1 /\ call.exch <= 1 /\ call.reqs <= 1
    /\ call.thrown.name \in {"ApiError", "AuthenticationError"}
         => /\ call.pc = "done"
            /\ call.outcome.kind = "error"
            /\ call.outcome.content = <<>>
            /\ IsInfix(call.thrown.message, call.outcome.error.message)

C8_Witness ==
  \E c \in Slots :
    /\ calls[c].pc = "done"
    /\ calls[c].thrown = ApiError("401")
    /\ calls[c].outcome.kind = "error"
    /\ calls[c].reqs = 1

\* C9: invalid-params is raised only for absent arguments or an absent
\* required key of a tool with required fields; the tools without required
\* fields always reach their handler (absent arguments becoming an empty
\* object for get_new_releases and get_recommendations), and arguments that
\* hold the required keys are forwarded unchanged whatever their values.
C9_PresenceOnlyValidation ==
  \A c \in Slots :
    LET call == calls[c] IN
    (call.pc # "idle" /\ call.name \in CatalogNames)
      => /\ ErrorCode(call) = InvalidParams
              => (call.name \in RequiredTools /\ MissingRequired(call.name, call.args))
         /\ (call.name \in RequiredTools /\ ~MissingRequired(call.name, call.args))
              => (call.invoked = 1 /\ call.handlerArgs = call.args)
         /\ call.name \in {"get_new_releases", "get_recommendations"}
              => /\ call.invoked = 1
                 /\ call.handlerArgs = IF call.args.present THEN call.args ELSE EmptyArgs
         /\ call.name \in {"get_access_token", "get_available_genres"}
              => call.invoked = 1

C9_Witness ==
  \E c \in Slots :
    /\ calls[c].name = "search"
    /\ calls[c].invoked = 1
    /\ calls[c].handlerArgs = calls[c].args
    /\ calls[c].args.fields["type"] = StrVal("bogus")
    /\ "limit" \in DOMAIN calls[c].args.fields
    /\ calls[c].args.fields["limit"] = StrVal("banana")

\* The tool table of the design document: name -> required arguments.
TableRequired(name) ==
  CASE name = "search" -> {"query", "type"}
    [] name \in {"get_multiple_artists", "get_multiple_albums"} -> {"ids"}
    [] name \in {"get_artist", "get_artist_top_tracks", "get_artist_related_artists",
                 "get_artist_albums", "get_album", "get_album_tracks", "get_track",
                 "get_audiobook"} -> {"id"}
    [] OTHER -> {}

TableNames ==
  RequiredTools \cup {"get_access_token", "get_available_genres",
                      "get_new_releases", "get_recommendations"}

\* C10: the listed catalog and the dispatcher agree: the 15 listed names are
\* exactly the names with a dispatch case, and for each the keys enforced at
\* dispatch are the listed required keys and those of the tool table.
C10_CatalogMatchesDispatch ==
  listed # <<>> =>
    LET listedNames == {listed[i].name : i \in DOMAIN listed} IN
    /\ Len(listed) = 15
    /\ listedNames = TableNames
    /\ \A name \in Names : name \in listedNames <=> Case(name).kind # "default"
    /\ \A i \in DOMAIN listed :
         /\ Range(listed[i].required) = Range(Case(listed[i].name).required)
         /\ Range(listed[i].required) = TableRequired(listed[i].name)
    /\ \A c \in Slots :
         LET call == calls[c] IN
         call.pc # "idle" =>
           /\ ErrorCode(call) = MethodNotFound <=> call.name \notin listedNames
           /\ (call.name \in listedNames /\ call.args.present)
                => (ErrorCode(call) = InvalidParams
                      <=> \E k \in Range(CatalogEntry(call.name).required) :
                             k \notin DOMAIN call.args.fields)

C10_Witness ==
  /\ listed # <<>>
  /\ \E c \in Slots :
       /\ calls[c].name = "get_audiobook"
       /\ calls[c].args.present
       /\ calls[c].pc = "done"
       /\ ErrorCode(calls[c]) = InvalidParams
====
